---- MODULE Spec2Model ----
(***************************************************************************)
(* Pointer-level model of Set<ValueType> (src/set.h), an AVL tree with     *)
(* parent links, cached height/size and a cached pointer to the minimum.   *)
(* Nodes live in a heap of MaxNodes cells; a pointer is a cell number and  *)
(* NULL is nullptr.  A member function of the class is an operator over a  *)
(* heap record, written statement by statement; a public call is an action.*)
(* HashMap<KeyType, ValueType, Hash> (src/hashmap.h) follows in the same   *)
(* way: its data members are a record, its std::list a sequence of nodes   *)
(* that keep their address, a list iterator the address of a node.         *)
(***************************************************************************)
EXTENDS Integers, Sequences, FiniteSets, TLC

\* Largest value a caller inserts, erases or looks up.
MaxVal == 4
Val == 1..MaxVal
\* Heap cells: for each of the three Set objects there can be at a time (two
\* sets and the temporary of operator=) one per storable value and one for a
\* value read from deleted memory; plus the cell insert() allocates before it
\* knows whether the element is a duplicate.
MaxNodes == 3 * (MaxVal + 1) + 1
Node == 1..MaxNodes
NULL == 0

\* Largest key a caller uses with the HashMap.
MaxKey == 3
Key == 1..MaxKey
\* Largest mapped value; 0 is ValueType().
MaxMapVal == 1
MapVal == 0..MaxMapVal
\* The capacity a HashMap starts with.  The class has 1 << 10; the model
\* starts small so that MaxKey keys are enough to make it grow, twice.
kInitCapacity_ == 3
\* Addresses of std::list nodes.  The allocator puts the node made for key k
\* at address k (the list never holds a key twice, see RefinesMap).
ListNode == Key
\* data_.end(): the address of the list's own sentinel node.
Sentinel == MaxKey + 1
\* The hash functors a HashMap is constructed with: the identity (what
\* std::hash does on integers), one under which all keys collide until the
\* capacity has doubled, and one under which they collide at every capacity
\* reached.
Hashers == { [k \in Key |-> k * stride] :
                stride \in {1, kInitCapacity_, 4 * kInitCapacity_} }

VARIABLES
    node,       \* node[n]: the fields of heap cell n (struct Node)
    live,       \* cells allocated by new and not yet deleted
    root,       \* Set::root
    most_left,  \* Set::most_left
    crashed,    \* the process died on an invalid read
    watch,      \* which history the observer keeps (fixed by Init)
    abs,        \* history: the mathematical set the calls describe
    last,       \* history: the last public call, its argument, what it met
    rots,       \* history: calls of rebalance() made by the last public call
    swaps,      \* history: value swaps made by the last public call
    it,         \* a caller-held iterator's ptr_
    itv,        \* history: the value the iterator showed when it was taken
    itcall,     \* history: the call made while the iterator was held
    q,          \* the last query (lower_bound) and its result
    rt,         \* history of an insert(x) and the erase(x) right after it
    torn,       \* history: what the last clear() did on its way
    copy,       \* a second Set object: its root and most_left
    cp,         \* history of the copy: what was done last, what must stay
    trace,      \* history: the rebalance() and erase_() calls of the last call
    size_,      \* HashMap::size_
    capacity_,  \* HashMap::capacity_
    hasher_,    \* HashMap::hasher_
    borders_,   \* HashMap::borders_
    data_,      \* HashMap::data_
    mabs,       \* history: the mathematical map the calls describe
    mlast       \* history: the last call on the map if it answered, and what

vars == <<node, live, root, most_left, crashed, watch, abs, last, rots, swaps,
          it, itv, itcall, q, rt, torn, copy, cp, trace,
          size_, capacity_, hasher_, borders_, data_, mabs, mlast>>

\* The HashMap and its history.
mapvars == <<size_, capacity_, hasher_, borders_, data_, mabs, mlast>>

\* The Set, its copy and their history.
setvars == <<node, live, root, most_left, crashed, watch, abs, last, rots,
             swaps, it, itv, itcall, q, rt, torn, copy, cp, trace>>

\* The data members of the HashMap.
M == [size_ |-> size_, capacity_ |-> capacity_, hasher_ |-> hasher_,
      borders_ |-> borders_, data_ |-> data_]

\* The log of a call that has called neither rebalance() nor erase_().
NoLog == [rebalances |-> <<>>, erases |-> <<>>]

\* The part of the state the member functions read and write, and the log
\* they keep of what they call.
H == [node |-> node, live |-> live, root |-> root, most_left |-> most_left,
      crashed |-> crashed, rots |-> rots, swaps |-> swaps, log |-> NoLog]

\* The heap h without the log.
Unlog(h) == [h EXCEPT !.log = NoLog]

\* Contents of a cell that is not allocated (indeterminate in C++; fixed here
\* so that two heaps differing only in dead memory are one state).
DeadNode == [value |-> 0, left |-> NULL, right |-> NULL, parent |-> NULL,
             height |-> 0, size |-> 0]

\* Node::Node(value): no children, no parent, height 1, size 1.
NewNode(x) == [value |-> x, left |-> NULL, right |-> NULL, parent |-> NULL,
               height |-> 1, size |-> 1]

\* delete n
Free(h, n) == [h EXCEPT !.live = @ \ {n}, !.node[n] = DeadNode]

Max(a, b) == IF a >= b THEN a ELSE b

get_h(h, n) == IF n = NULL THEN 0 ELSE h.node[n].height

get_sz(h, n) == IF n = NULL THEN 0 ELSE h.node[n].size

get_diff(h, v) ==
    IF v = NULL THEN 0
    ELSE get_h(h, h.node[v].left) - get_h(h, h.node[v].right)

\* The while loop of find_: returns <<cur, prev>>.
RECURSIVE find_loop(_, _, _, _)
find_loop(h, cur, prev, x) ==
    IF cur = NULL THEN <<cur, prev>>
    ELSE IF ~(h.node[cur].value < x) /\ ~(x < h.node[cur].value)
         THEN <<cur, prev>>
    ELSE IF h.node[cur].value < x
         THEN find_loop(h, h.node[cur].right, cur, x)
         ELSE find_loop(h, h.node[cur].left, cur, x)

find_(h, x) ==
    IF h.root = NULL THEN <<NULL, NULL>>
    ELSE find_loop(h, h.root, NULL, x)

\* recalc that refreshes the height and leaves the size as it was.
recalc_height_only(h, v) ==
    IF v = NULL THEN h
    ELSE [h EXCEPT
            !.node[v].height =
                Max(get_h(h, h.node[v].left), get_h(h, h.node[v].right)) + 1]

recalc(h, v) ==
    IF v = NULL THEN h
    ELSE [h EXCEPT
            !.node[v].height =
                Max(get_h(h, h.node[v].left), get_h(h, h.node[v].right)) + 1,
            !.node[v].size =
                get_sz(h, h.node[v].left) + get_sz(h, h.node[v].right) + 1]

\* "if (p != nullptr) { if (p->left == v) p->left = n; else p->right = n; }"
Relink(h, p, v, n) ==
    IF p = NULL THEN h
    ELSE IF h.node[p].left = v THEN [h EXCEPT !.node[p].left = n]
    ELSE [h EXCEPT !.node[p].right = n]

\* Reparent that leaves the parent field of c as it was.
Reparent_forgotten(h, c, n) == h

\* "if (c != nullptr) c->parent = n;"
Reparent(h, c, n) == IF c = NULL THEN h ELSE [h EXCEPT !.node[c].parent = n]

\* The rotations return the new heap and the new root of the subtree.
\* small_left_rotation without its recalc(v).
small_left_rotation_stale(h, v) ==
    LET u  == h.node[v].right
        p  == h.node[v].parent
        h1 == [h EXCEPT !.node[u].parent = p]
        h2 == Relink(h1, p, v, u)
        h3 == [h2 EXCEPT !.node[v].right = h2.node[u].left]
        h4 == Reparent(h3, h3.node[u].left, v)
        h5 == [h4 EXCEPT !.node[u].left = v]
        h6 == [h5 EXCEPT !.node[v].parent = u]
    IN  [h |-> recalc(recalc(h6, u), p), v |-> u]

small_left_rotation(h, v) ==
    LET u  == h.node[v].right
        p  == h.node[v].parent
        h1 == [h EXCEPT !.node[u].parent = p]
        h2 == Relink(h1, p, v, u)
        h3 == [h2 EXCEPT !.node[v].right = h2.node[u].left]
        h4 == Reparent(h3, h3.node[u].left, v)
        h5 == [h4 EXCEPT !.node[u].left = v]
        h6 == [h5 EXCEPT !.node[v].parent = u]
    IN  [h |-> recalc(recalc(recalc(h6, v), u), p), v |-> u]

small_right_rotation(h, v) ==
    LET u  == h.node[v].left
        p  == h.node[v].parent
        h1 == [h EXCEPT !.node[u].parent = p]
        h2 == Relink(h1, p, v, u)
        h3 == [h2 EXCEPT !.node[v].left = h2.node[u].right]
        h4 == Reparent(h3, h3.node[u].right, v)
        h5 == [h4 EXCEPT !.node[u].right = v]
        h6 == [h5 EXCEPT !.node[v].parent = u]
    IN  [h |-> recalc(recalc(recalc(h6, v), u), p), v |-> u]

big_left_rotation(h, v) ==
    LET u  == h.node[v].right
        w  == h.node[u].left
        p  == h.node[v].parent
        h1 == [h EXCEPT !.node[w].parent = p]
        h2 == Relink(h1, p, v, w)
        h3 == [h2 EXCEPT !.node[v].right = h2.node[w].left]
        h4 == Reparent(h3, h3.node[w].left, v)
        h5 == [h4 EXCEPT !.node[u].left = h4.node[w].right]
        h6 == Reparent(h5, h5.node[w].right, u)
        h7 == [h6 EXCEPT !.node[u].parent = w, !.node[v].parent = w]
        h8 == [h7 EXCEPT !.node[w].left = v, !.node[w].right = u]
    IN  [h |-> recalc(recalc(recalc(recalc(h8, u), v), w), p), v |-> w]

big_right_rotation(h, v) ==
    LET u  == h.node[v].left
        w  == h.node[u].right
        p  == h.node[v].parent
        h1 == [h EXCEPT !.node[w].parent = p]
        h2 == Relink(h1, p, v, w)
        h3 == [h2 EXCEPT !.node[u].right = h2.node[w].left]
        h4 == Reparent(h3, h3.node[w].left, u)
        h5 == [h4 EXCEPT !.node[v].left = h4.node[w].right]
        h6 == Reparent(h5, h5.node[w].right, v)
        h7 == [h6 EXCEPT !.node[u].parent = w, !.node[v].parent = w]
        h8 == [h7 EXCEPT !.node[w].left = u, !.node[w].right = v]
    IN  [h |-> recalc(recalc(recalc(recalc(h8, u), v), w), p), v |-> w]

\* SetRootIf that, moving root, moves most_left with it.
SetRootIf_with_most_left(h, v, r) ==
    IF v = h.root THEN [r EXCEPT !.h.root = r.v, !.h.most_left = r.v] ELSE r

\* "if (v == root) return root = rot(v); return rot(v);"
SetRootIf(h, v, r) == IF v = h.root THEN [r EXCEPT !.h.root = r.v] ELSE r

\* rotate that takes the double rotation also when the taller child has
\* factor 0.
rotate_double_on_zero(h, v) ==
    IF get_diff(h, v) = -2
    THEN IF get_diff(h, h.node[v].right) = -1
         THEN SetRootIf(h, v, small_left_rotation(h, v))
         ELSE SetRootIf(h, v, big_left_rotation(h, v))
    ELSE IF get_diff(h, h.node[v].left) = 1
         THEN SetRootIf(h, v, small_right_rotation(h, v))
         ELSE SetRootIf(h, v, big_right_rotation(h, v))

\* The four-way choice of rebalance for a non-null v.
rotate(h, v) ==
    IF get_diff(h, v) = -2
    THEN IF get_diff(h, h.node[v].right) = -1
            \/ get_diff(h, h.node[v].right) = 0
         THEN SetRootIf(h, v, small_left_rotation(h, v))
         ELSE SetRootIf(h, v, big_left_rotation(h, v))
    ELSE IF get_diff(h, h.node[v].left) = 1
            \/ get_diff(h, h.node[v].left) = 0
         THEN SetRootIf(h, v, small_right_rotation(h, v))
         ELSE SetRootIf(h, v, big_right_rotation(h, v))

\* The result r of the call rebalance(v) made on heap h, with the call
\* written to the log: the heap it found (at), the heap it left (to) and the
\* node it returned (ret).
Logged(h, v, r) ==
    [r EXCEPT !.h.log.rebalances =
                 Append(@, [v |-> v, at |-> Unlog(h), to |-> Unlog(r.h),
                            ret |-> r.v])]

\* rebalance(v); the call is counted in rots.
rebalance(h, v) ==
    Logged(h, v, IF v = NULL THEN [h |-> h, v |-> NULL]
                 ELSE rotate([h EXCEPT !.rots = @ + 1], v))

RECURSIVE down_left(_, _)
down_left(h, v) ==
    IF h.node[v].left # NULL THEN down_left(h, h.node[v].left) ELSE v

RECURSIVE down_right(_, _)
down_right(h, v) ==
    IF h.node[v].right # NULL THEN down_right(h, h.node[v].right) ELSE v

RECURSIVE up_while_right(_, _)
up_while_right(h, v) ==
    IF h.node[v].parent # NULL /\ h.node[h.node[v].parent].right = v
    THEN up_while_right(h, h.node[v].parent)
    ELSE h.node[v].parent

RECURSIVE up_while_left(_, _)
up_while_left(h, v) ==
    IF h.node[v].parent # NULL /\ h.node[h.node[v].parent].left = v
    THEN up_while_left(h, h.node[v].parent)
    ELSE h.node[v].parent

\* get_next that, without a right subtree, answers with the parent.
get_next_one_up(h, v) ==
    IF v = NULL THEN NULL
    ELSE IF h.node[v].right # NULL THEN down_left(h, h.node[v].right)
    ELSE h.node[v].parent

get_next(h, v) ==
    IF v = NULL THEN NULL
    ELSE IF h.node[v].right # NULL THEN down_left(h, h.node[v].right)
    ELSE up_while_right(h, v)

get_prev(h, v) ==
    IF v = NULL THEN NULL
    ELSE IF h.node[v].left # NULL THEN down_right(h, h.node[v].left)
    ELSE up_while_left(h, v)

get_most_right(h) ==
    IF h.root = NULL THEN NULL ELSE down_right(h, h.root)

\* recalc_to_root with the walk to the root left out.
recalc_to_root_skipped(h, v) == h

\* The last loop of insert and of erase_: recalc from v up to the root.
RECURSIVE recalc_to_root(_, _)
recalc_to_root(h, v) ==
    IF v = NULL THEN h
    ELSE recalc_to_root(recalc(h, v), h.node[v].parent)

\* insert_ascent that climbs past an unbalanced node without rotating.
RECURSIVE insert_ascent_no_rotation(_, _)
insert_ascent_no_rotation(h, v) ==
    IF v = NULL THEN [h |-> h, v |-> NULL]
    ELSE IF get_diff(h, v) = 0 THEN [h |-> h, v |-> v]
    ELSE insert_ascent_no_rotation(recalc(h, v), h.node[v].parent)

\* insert_ascent that calls rebalance() already at factor 1.
RECURSIVE insert_ascent_eager(_, _)
insert_ascent_eager(h, v) ==
    IF v = NULL THEN [h |-> h, v |-> NULL]
    ELSE IF get_diff(h, v) = 0 THEN [h |-> h, v |-> v]
    ELSE IF get_diff(h, v) = -1
         THEN insert_ascent_eager(recalc(h, v), h.node[v].parent)
    ELSE LET r == rebalance(h, v) IN insert_ascent_eager(r.h, r.v)

\* The rebalancing loop of insert; returns the heap and the node it stops at.
RECURSIVE insert_ascent(_, _)
insert_ascent(h, v) ==
    IF v = NULL THEN [h |-> h, v |-> NULL]
    ELSE IF get_diff(h, v) = 0 THEN [h |-> h, v |-> v]
    ELSE IF get_diff(h, v) = 1 \/ get_diff(h, v) = -1
         THEN insert_ascent(recalc(h, v), h.node[v].parent)
    ELSE LET r == rebalance(h, v) IN insert_ascent(r.h, r.v)

\* The comparison that never finds the element smaller.
MostLeftCompare_never_less(h, x) == {"notless"}

\* The outcomes of "element < most_left->value".  most_left is read through
\* whatever it holds: a null or freed pointer makes the read undefined, and
\* the build may trap or deliver either answer.
MostLeftCompare(h, x) ==
    IF h.most_left \in h.live
    THEN {IF x < h.node[h.most_left].value THEN "less" ELSE "notless"}
    ELSE {"less", "notless", "trap"}

\* attach with the two sides exchanged.
attach_mirrored(h, v, n, x) ==
    LET h2 == [h EXCEPT !.node[n].parent = v] IN
    IF x < h2.node[v].value
    THEN [h2 EXCEPT !.node[v].right = n]
    ELSE [h2 EXCEPT !.node[v].left = n]

\* Hanging the new node n under the search-failure parent v.
attach(h, v, n, x) ==
    LET h2 == [h EXCEPT !.node[n].parent = v] IN
    IF x < h2.node[v].value
    THEN [h2 EXCEPT !.node[v].left = n]
    ELSE [h2 EXCEPT !.node[v].right = n]

\* insert that, finding the element stored, keeps the new node in the place of
\* the old one and deletes the old one.
insert_at_replacing(h, x, n, c) ==
    LET h0 == [h EXCEPT !.live = @ \cup {n}, !.node[n] = NewNode(x)]
    IN
    IF h.root = NULL THEN [h0 EXCEPT !.root = n, !.most_left = n]
    ELSE IF c = "trap" THEN [h EXCEPT !.crashed = TRUE]
    ELSE
      LET place == find_(h0, x)
          h1 == IF c = "less" THEN [h0 EXCEPT !.most_left = n] ELSE h0
      IN
      IF place[1] # NULL
      THEN LET o == place[1]
               h2 == [h1 EXCEPT !.node[n] = h1.node[o]]
               h3 == Reparent(Reparent(h2, h2.node[n].left, n),
                              h2.node[n].right, n)
               p  == h3.node[n].parent
               h4 == IF p = NULL THEN [h3 EXCEPT !.root = n]
                     ELSE IF h3.node[p].left = o
                          THEN [h3 EXCEPT !.node[p].left = n]
                          ELSE [h3 EXCEPT !.node[p].right = n]
               h5 == IF h4.most_left = o THEN [h4 EXCEPT !.most_left = n]
                     ELSE h4
           IN  Free(h5, o)
      ELSE
        LET v == place[2]
            a == insert_ascent(recalc(attach(h1, v, n, x), v), v)
        IN  recalc_to_root(a.h, a.v)

\* insert(element) with the new node placed in cell n, and the comparison
\* against most_left answering c.
insert_at(h, x, n, c) ==
    LET h0 == [h EXCEPT !.live = @ \cup {n}, !.node[n] = NewNode(x)]
    IN
    IF h.root = NULL THEN [h0 EXCEPT !.root = n, !.most_left = n]
    ELSE IF c = "trap" THEN [h EXCEPT !.crashed = TRUE]
    ELSE
      LET place == find_(h0, x)
          h1 == IF c = "less" THEN [h0 EXCEPT !.most_left = n] ELSE h0
      IN
      IF place[1] # NULL THEN Free(h1, n)
      ELSE
        LET v == place[2]
            a == insert_ascent(recalc(attach(h1, v, n, x), v), v)
        IN  recalc_to_root(a.h, a.v)

\* new Node(element): the allocator is first-fit, it hands out the lowest
\* free cell.
new_node(h) == CHOOSE n \in Node \ h.live : \A m \in Node \ h.live : n <= m

\* Every heap insert(element) can return (or die in).
insert(h, x) ==
    { insert_at(h, x, new_node(h), c) :
        c \in IF h.root = NULL THEN {"notless"} ELSE MostLeftCompare(h, x) }

\* swap_values that forgets to swap.
swap_values_forgotten(h, u, v) == h

\* std::swap(u->value, v->value); the swap is counted in swaps.
swap_values(h, u, v) ==
    [h EXCEPT !.node[u].value = h.node[v].value,
              !.node[v].value = h.node[u].value,
              !.swaps = @ + 1]

\* The rebalancing loop of erase_.
RECURSIVE erase_ascent(_, _)
erase_ascent(h, v) ==
    IF v = NULL THEN [h |-> h, v |-> NULL]
    ELSE IF get_diff(h, v) = 1 \/ get_diff(h, v) = -1 THEN [h |-> h, v |-> v]
    ELSE IF get_diff(h, v) = 0
         THEN erase_ascent(recalc(h, v), h.node[v].parent)
    ELSE LET r == rebalance(h, v) IN erase_ascent(r.h, r.v)

\* "if (v == most_left) most_left = get_next(v);"
erase_most_left(h, v) ==
    IF v = h.most_left THEN [h EXCEPT !.most_left = get_next(h, v)] ELSE h

\* The leaf branch of erase_.
erase_leaf(h, v) ==
    LET p == h.node[v].parent IN
    IF p = NULL
    THEN Free([h EXCEPT !.root = NULL, !.most_left = NULL], v)
    ELSE LET h1 == IF h.node[p].left = v
                   THEN [h EXCEPT !.node[p].left = NULL]
                   ELSE [h EXCEPT !.node[p].right = NULL]
             h2 == Free(recalc(h1, p), v)
             a  == erase_ascent(h2, p)
         IN  recalc_to_root(a.h, a.v)

\* erase_adjacent that, for a node with two children, takes the neighbour on
\* the other side.
erase_adjacent_other_side(h, v) ==
    IF h.node[v].left # NULL /\ h.node[v].right # NULL
    THEN IF get_diff(h, v) >= 0 THEN get_next(h, v) ELSE get_prev(h, v)
    ELSE IF get_diff(h, v) >= 0 THEN get_prev(h, v) ELSE get_next(h, v)

\* The node erase_ swaps values with and recurses on.
erase_adjacent(h, v) ==
    IF get_diff(h, v) >= 0 THEN get_prev(h, v) ELSE get_next(h, v)

RECURSIVE erase_(_, _)
erase_(h, v) ==
    IF v = NULL THEN h
    ELSE LET h0 == [h EXCEPT !.log.erases =
                               Append(@, [v |-> v, at |-> Unlog(h)])]
             h1 == erase_most_left(h0, v)
         IN
         IF h1.node[v].left = NULL /\ h1.node[v].right = NULL
         THEN erase_leaf(h1, v)
         ELSE LET u == erase_adjacent(h1, v)
              IN  erase_(swap_values(h1, u, v), u)

\* erase that, missing the element, erases the node the search stopped at.
erase_by_parent(h, x) ==
    LET found == find_(h, x) IN
    IF found[1] = NULL THEN erase_(h, found[2]) ELSE erase_(h, found[1])

erase(h, x) ==
    LET v == find_(h, x)[1] IN
    IF v = NULL THEN h ELSE erase_(h, v)

\* clear that deletes a leaf without unhooking it from its parent.
clear_unlink_skipped(h, v, next) == h

\* The two branches of clear() that null the parent's link to the leaf v.
clear_unlink(h, v, next) ==
    IF next # NULL /\ h.node[next].left = v
    THEN [h EXCEPT !.node[next].left = NULL]
    ELSE IF next # NULL /\ h.node[next].right = v
    THEN [h EXCEPT !.node[next].right = NULL]
    ELSE h

\* Iterations the loop of clear() is followed for: twice the cells there are.
ClearFuel == 2 * MaxNodes

\* The while loop of clear(), from the state r = [h, v, frees, steps, fault]:
\* h the heap, v the loop variable, frees the deletes and steps the
\* iterations so far, fault whether it has read or deleted a deleted node.
\* The loop is left where it stands once it faults or the fuel is spent.
RECURSIVE clear_loop(_, _)
clear_loop(r, fuel) ==
    IF r.v = NULL \/ r.fault \/ fuel = 0 THEN r
    ELSE IF r.v \notin r.h.live THEN [r EXCEPT !.fault = TRUE]
    ELSE
      LET v == r.v
          n == r.h.node[v]
      IN
      IF n.left = NULL /\ n.right = NULL
      THEN IF n.parent # NULL /\ n.parent \notin r.h.live
           THEN [r EXCEPT !.fault = TRUE]
           ELSE clear_loop([h |-> Free(clear_unlink(r.h, v, n.parent), v),
                            v |-> n.parent,
                            frees |-> r.frees + 1,
                            steps |-> r.steps + 1,
                            fault |-> FALSE], fuel - 1)
      ELSE IF n.left = NULL
      THEN clear_loop([r EXCEPT !.v = n.right, !.steps = @ + 1], fuel - 1)
      ELSE clear_loop([r EXCEPT !.v = n.left, !.steps = @ + 1], fuel - 1)

\* clear(): the heap it leaves and what it did.  A clear() that faulted or is
\* still looping has not returned: the process is lost.
clear(h) ==
    IF h.root = NULL
    THEN [h |-> h, frees |-> 0, steps |-> 0, fault |-> FALSE, finished |-> TRUE]
    ELSE LET r == clear_loop([h |-> h, v |-> h.root, frees |-> 0, steps |-> 0,
                              fault |-> FALSE], ClearFuel)
             done == r.v = NULL /\ ~r.fault
         IN  [h |-> IF done THEN [r.h EXCEPT !.root = NULL, !.most_left = NULL]
                    ELSE [r.h EXCEPT !.crashed = TRUE],
              frees |-> r.frees, steps |-> r.steps, fault |-> r.fault,
              finished |-> done]

\* A Set object: its two data members.
NoSet == [root |-> NULL, most_left |-> NULL]

\* The heap with the Set object s as the object the member functions work on.
On(h, s) == [h EXCEPT !.root = s.root, !.most_left = s.most_left]

\* The Set object the member functions have worked on.
Of(h) == [root |-> h.root, most_left |-> h.most_left]

size(h) == get_sz(h, h.root)

empty(h) == get_sz(h, h.root) = 0

begin(h) == h.most_left

end(h) == NULL

find(h, x) == find_(h, x)[1]

\* iterator::operator++ on an iterator whose ptr_ is p: the new ptr_.
iterator_increment(h, p) == get_next(h, p)

\* iterator::operator-- on an iterator whose ptr_ is p: the new ptr_.
iterator_decrement(h, p) ==
    IF p = NULL THEN get_most_right(h) ELSE get_prev(h, p)

\* lower_bound that answers with the search-failure parent itself.
lower_bound_parent(h, x) ==
    LET found == find_(h, x) IN
    IF found[1] # NULL THEN found[1] ELSE found[2]

lower_bound(h, x) ==
    LET found == find_(h, x) IN
    IF found[1] # NULL THEN found[1]
    ELSE IF found[2] = NULL THEN NULL
    ELSE IF x < h.node[found[2]].value THEN found[2]
    ELSE get_next(h, found[2])

----------------------------------------------------------------------------
(* What is really in the heap, read off the left/right links alone.        *)

RECURSIVE TreeNodes(_, _)
TreeNodes(h, n) ==
    IF n = NULL THEN {}
    ELSE {n} \cup TreeNodes(h, h.node[n].left) \cup TreeNodes(h, h.node[n].right)

RECURSIVE TrueHeight(_, _)
TrueHeight(h, n) ==
    IF n = NULL THEN 0
    ELSE 1 + Max(TrueHeight(h, h.node[n].left), TrueHeight(h, h.node[n].right))

TrueSize(h, n) == Cardinality(TreeNodes(h, n))

Values(h, n) == { h.node[m].value : m \in TreeNodes(h, n) }

RECURSIVE InOrder(_, _)
InOrder(h, n) ==
    IF n = NULL THEN <<>>
    ELSE InOrder(h, h.node[n].left) \o <<h.node[n].value>>
         \o InOrder(h, h.node[n].right)

\* for (it = begin(); it != end(); ++it) collect *it
RECURSIVE IterFrom(_, _, _)
IterFrom(h, p, fuel) ==
    IF p = NULL \/ fuel = 0 THEN <<>>
    ELSE <<h.node[p].value>> \o IterFrom(h, get_next(h, p), fuel - 1)

IterSeq(h) == IterFrom(h, begin(h), MaxNodes)

\* The runs a walk from begin() to end() can take.  A begin() that holds the
\* address of a deleted node makes the first read undefined: the walk may
\* trap, or go on with what the deleted cell holds.
range_for(h) ==
    IF begin(h) = NULL \/ begin(h) \in h.live
    THEN {[trap |-> FALSE, seq |-> IterSeq(h)]}
    ELSE {[trap |-> TRUE, seq |-> <<>>], [trap |-> FALSE, seq |-> IterSeq(h)]}

\* insert(elem) for each elem of s in turn: every heap that can result.
RECURSIVE insert_all(_, _)
insert_all(h, s) ==
    IF h.crashed \/ s = <<>> THEN {h}
    ELSE UNION { insert_all(g, Tail(s)) : g \in insert(h, Head(s)) }

\* A copy constructor that takes over the other set's pointers.
copy_construct_aliasing(h, other) == {On(h, other)}

\* Set(const Set& other), and Set(other.begin(), other.end()): a new object,
\* then insert of each element the walk over other shows.  The heaps that can
\* result, each with the new object as the one worked on.
copy_construct(h, other) ==
    UNION { IF w.trap THEN {[On(h, NoSet) EXCEPT !.crashed = TRUE]}
            ELSE insert_all(On(h, NoSet), w.seq)
            : w \in range_for(On(h, other)) }

\* The rest of operator= once temp_set is built in heap t: clear(), insert of
\* each element of temp_set, and temp_set's destructor.
assign_from_temp(t, this) ==
    LET temp == Of(t)
        c == clear(On(t, this)).h
    IN
    IF c.crashed THEN {c}
    ELSE UNION { IF w.trap THEN {[c EXCEPT !.crashed = TRUE]}
                 ELSE { IF g.crashed THEN g
                        ELSE On(clear(On(g, temp)).h, Of(g))
                        : g \in insert_all(c, w.seq) }
                 : w \in range_for(On(c, temp)) }

\* this->operator=(other): the heaps that can result, each with *this as the
\* object worked on.
assign(h, this, other) ==
    UNION { IF t.crashed THEN {t} ELSE assign_from_temp(t, this)
            : t \in copy_construct(h, other) }

Increasing(s) == \A i \in 1..(Len(s) - 1) : s[i] < s[i + 1]

Range(s) == { s[i] : i \in 1..Len(s) }

Least(S) == CHOOSE m \in S : \A k \in S : m <= k

Greatest(S) == CHOOSE m \in S : \A k \in S : m >= k

Abs(d) == IF d < 0 THEN -d ELSE d

----------------------------------------------------------------------------
(* HashMap (src/hashmap.h).  A member function is an operator over the     *)
(* record m of the data members.  data_ is a sequence of list nodes        *)
(* [id, first, second], id being the node's address; an iterator is an id, *)
(* Sentinel for data_.end(), or NULL for ListIterator(nullptr).            *)

\* The place in the list d of the node the iterator it is at.
Pos(d, i) == CHOOSE j \in 1..Len(d) : d[j].id = i

\* *it
list_at(d, i) == d[Pos(d, i)]

\* ++it
list_next(d, i) == IF Pos(d, i) = Len(d) THEN Sentinel ELSE d[Pos(d, i) + 1].id

\* --it
list_prev(d, i) ==
    IF i = Sentinel THEN d[Len(d)].id ELSE d[Pos(d, i) - 1].id

\* The address std::list gives the node it makes for element.
new_list_node(element) == CHOOSE n \in ListNode : n = element.first

\* data_.insert(it, element) and, with it = data_.end(), data_.push_back.
list_insert(d, i, element) ==
    LET n == [id |-> new_list_node(element), first |-> element.first,
              second |-> element.second]
        j == IF i = Sentinel THEN Len(d) + 1 ELSE Pos(d, i)
    IN  SubSeq(d, 1, j - 1) \o <<n>> \o SubSeq(d, j, Len(d))

\* data_.erase(it)
list_erase(d, i) ==
    SubSeq(d, 1, Pos(d, i) - 1) \o SubSeq(d, Pos(d, i) + 1, Len(d))

local_hash(m, value) == m.hasher_[value] % m.capacity_

map_begin(m) == IF m.data_ = <<>> THEN Sentinel ELSE m.data_[1].id

map_end(m) == Sentinel

\* The while loop of find.
RECURSIVE find_scan(_, _, _, _)
find_scan(m, i, key, key_hash) ==
    IF i # Sentinel /\ local_hash(m, list_at(m.data_, i).first) = key_hash
    THEN IF list_at(m.data_, i).first = key THEN i
         ELSE find_scan(m, list_next(m.data_, i), key, key_hash)
    ELSE map_end(m)

map_find(m, key) ==
    LET key_hash == local_hash(m, key) IN
    IF m.borders_[key_hash] = NULL THEN map_end(m)
    ELSE find_scan(m, m.borders_[key_hash], key, key_hash)

\* need_rehash that never asks for more room.
need_rehash_never(m) == FALSE

need_rehash(m) == (m.size_ + 1) * 2 >= m.capacity_

RECURSIVE insert_it(_, _)
RECURSIVE rehash(_)

\* The for loop of rehash: insert(element) for each element of data_copy.
RECURSIVE rehash_loop(_, _)
rehash_loop(m, data_copy) ==
    IF data_copy = <<>> THEN m
    ELSE rehash_loop(insert_it(m, Head(data_copy)).m, Tail(data_copy))

rehash(m) ==
    LET data_copy == [j \in 1..Len(m.data_) |->
                        [first |-> m.data_[j].first,
                         second |-> m.data_[j].second]]
    IN  rehash_loop([m EXCEPT !.capacity_ = @ * 2,
                              !.size_ = 0,
                              !.data_ = <<>>,
                              !.borders_ = [j \in 0..(m.capacity_ * 2 - 1)
                                                |-> NULL]],
                    data_copy)

\* insert_it(element): the map it leaves and the iterator it returns.
insert_it(m, element) ==
    LET found == map_find(m, element.first) IN
    IF found # map_end(m) THEN [m |-> m, it |-> found]
    ELSE
      LET m1 == IF need_rehash(m) THEN rehash(m) ELSE m
          key_hash == local_hash(m1, element.first)
      IN
      IF m1.data_ = <<>>
      THEN LET d == list_insert(m1.data_, Sentinel, element)
               m2 == [m1 EXCEPT !.data_ = d,
                                !.borders_[key_hash] = list_prev(d, Sentinel),
                                !.size_ = @ + 1]
           IN  [m |-> m2, it |-> m2.borders_[key_hash]]
      ELSE LET i == IF m1.borders_[key_hash] = NULL THEN Sentinel
                    ELSE m1.borders_[key_hash]
               d == list_insert(m1.data_, i, element)
               m2 == [m1 EXCEPT !.data_ = d,
                                !.borders_[key_hash] = list_prev(d, i),
                                !.size_ = @ + 1]
           IN  [m |-> m2, it |-> m2.borders_[key_hash]]

map_insert(m, element) == insert_it(m, element).m

\* The bucket's new border that forgets the rest of the bucket.
erase_border_dropped(m, it_next, key_hash) == NULL

\* What erase makes of the bucket's border once its first node is erased.
erase_border(m, it_next, key_hash) ==
    IF it_next = Sentinel
       \/ local_hash(m, list_at(m.data_, it_next).first) # key_hash
    THEN NULL
    ELSE it_next

\* The while loop of erase.
RECURSIVE erase_scan(_, _, _, _)
erase_scan(m, i, key, key_hash) ==
    IF i # Sentinel /\ local_hash(m, list_at(m.data_, i).first) = key_hash
    THEN IF list_at(m.data_, i).first = key
         THEN [m EXCEPT !.data_ = list_erase(@, i), !.size_ = @ - 1]
         ELSE erase_scan(m, list_next(m.data_, i), key, key_hash)
    ELSE m

map_erase(m, key) ==
    LET key_hash == local_hash(m, key)
        i == m.borders_[key_hash]
    IN
    IF i = NULL THEN m
    ELSE IF list_at(m.data_, i).first = key
    THEN LET it_next == list_next(m.data_, i)
             m1 == [m EXCEPT !.data_ = list_erase(@, i), !.size_ = @ - 1]
         IN  [m1 EXCEPT !.borders_[key_hash] =
                            erase_border(m1, it_next, key_hash)]
    ELSE erase_scan(m, i, key, key_hash)

map_clear(m) ==
    [m EXCEPT !.size_ = 0,
              !.borders_ = [j \in DOMAIN m.borders_ |->
                              IF \E k \in 1..Len(m.data_) :
                                    local_hash(m, m.data_[k].first) = j
                              THEN NULL ELSE m.borders_[j]],
              !.data_ = <<>>]

\* operator[] that gives a missing key the largest value, not ValueType().
map_index_largest(m, key) == insert_it(m, [first |-> key, second |-> MaxMapVal])

\* operator[](key): the map it leaves and the node whose second it returns
\* a reference to.
map_index(m, key) == insert_it(m, [first |-> key, second |-> 0])

\* at that answers ValueType() for a missing key.
map_at_defaulting(m, key) ==
    LET i == map_find(m, key) IN
    IF i = map_end(m) THEN [thrown |-> FALSE, ret |-> 0]
    ELSE [thrown |-> FALSE, ret |-> list_at(m.data_, i).second]

\* at(key): whether it throws std::out_of_range, and what it returns.
map_at(m, key) ==
    LET i == map_find(m, key) IN
    IF i = map_end(m) THEN [thrown |-> TRUE, ret |-> 0]
    ELSE [thrown |-> FALSE, ret |-> list_at(m.data_, i).second]

map_size(m) == m.size_

\* for (it = begin(); it != end(); ++it) collect it->first
RECURSIVE map_walk(_, _)
map_walk(m, i) ==
    IF i = map_end(m) THEN <<>>
    ELSE <<list_at(m.data_, i).first>> \o map_walk(m, list_next(m.data_, i))

----------------------------------------------------------------------------
NoCall == [op |-> "none", arg |-> 0, hit |-> FALSE, nodes |-> 0]
\* The record of the call op(x) made on the current heap: whether x is stored
\* when the call starts, and how many nodes are allocated then.
ThisCall(op, x) ==
    [op |-> op, arg |-> x, hit |-> (find(H, x) # end(H)),
     nodes |-> Cardinality(live)]
NoQuery == [op |-> "none", arg |-> 0, res |-> NULL]
NoTrip == [phase |-> 0, x |-> 0, before |-> <<>>, walk |-> <<>>,
           was_in |-> FALSE, min_ok |-> FALSE]

NoMapCall == [op |-> "none", key |-> 0, hit |-> FALSE, thrown |-> FALSE,
              ref |-> NULL, ret |-> 0]

NoCopy == [phase |-> 0, op |-> "none", keep |-> <<>>]

NoTeardown == [frees |-> 0, steps |-> 0, fault |-> FALSE, finished |-> FALSE]

NoTrace == [op |-> "none", arg |-> 0, rebalances |-> <<>>, erases |-> <<>>]

\* most_left is what the class says it is: a pointer to the smallest element.
MinCached(h) ==
    IF Values(h, h.root) = {} THEN h.most_left = NULL
    ELSE /\ h.most_left \in h.live
         /\ h.node[h.most_left].value = Least(Values(h, h.root))

\* The heap as a public call finds it.
Call == [H EXCEPT !.rots = 0, !.swaps = 0]

\* The heap a public call leaves.
Store(h) ==
    /\ node' = h.node
    /\ live' = h.live
    /\ root' = h.root
    /\ most_left' = h.most_left
    /\ crashed' = h.crashed

\* What the observer writes down when the call op(x) has left heap h.
Observe(op, x, h) ==
    /\ abs' = IF h.crashed THEN abs
              ELSE IF op = "insert" THEN abs \cup {x}
              ELSE IF op = "erase" THEN abs \ {x}
              ELSE {}
    /\ last' = IF watch = "calls" THEN ThisCall(op, x)
               ELSE IF watch = "ops" THEN [NoCall EXCEPT !.op = op, !.arg = x]
               ELSE last
    /\ rots' = IF watch \in {"calls", "ops"} THEN h.rots ELSE rots
    /\ swaps' = IF watch = "calls" THEN h.swaps ELSE swaps
    /\ q' = NoQuery
    /\ IF watch = "iter" /\ it # NULL /\ itcall = NoCall
       THEN itcall' = ThisCall(op, x) /\ UNCHANGED <<it, itv>>
       ELSE it' = NULL /\ itv' = 0 /\ itcall' = NoCall
    /\ rt' = IF watch # "trip" THEN rt
             ELSE IF op = "insert"
                  THEN [phase |-> 1, x |-> x, before |-> IterSeq(H),
                        walk |-> InOrder(H, root),
                        was_in |-> (find(H, x) # end(H)),
                        min_ok |-> MinCached(H)]
             ELSE IF rt.phase = 1 /\ rt.x = x THEN [rt EXCEPT !.phase = 2]
             ELSE NoTrip
    /\ cp' = IF watch = "copy" /\ cp.phase = 1
             THEN [phase |-> 2, op |-> op,
                   keep |-> InOrder(On(H, copy), copy.root)]
             ELSE NoCopy
    /\ trace' = IF \/ watch = "rebalance" /\ h.log.rebalances # <<>>
                   \/ watch \in {"deep", "tall"}
                THEN [NoTrace EXCEPT !.op = op, !.arg = x,
                                     !.rebalances = h.log.rebalances]
                ELSE IF watch = "erase_" /\ h.log.erases # <<>>
                THEN [NoTrace EXCEPT !.op = op, !.arg = x,
                                     !.erases = h.log.erases]
                ELSE NoTrace
    /\ UNCHANGED <<watch, copy, mapvars>>

\* Set::Set(), and an observer keeping the history w.
InitSet(w) ==
    /\ node = [n \in Node |-> DeadNode]
    /\ live = {}
    /\ root = NULL
    /\ most_left = NULL
    /\ crashed = FALSE
    /\ watch = w
    /\ abs = {}
    /\ last = NoCall
    /\ rots = 0
    /\ swaps = 0
    /\ it = NULL
    /\ itv = 0
    /\ itcall = NoCall
    /\ q = NoQuery
    /\ rt = NoTrip
    /\ torn = NoTeardown
    /\ copy = NoSet
    /\ cp = NoCopy
    /\ trace = NoTrace

\* HashMap::HashMap(hash_func), hash_func being one of hashers.
InitHashMap(hashers) ==
    /\ size_ = 0
    /\ capacity_ = kInitCapacity_
    /\ hasher_ \in hashers
    /\ borders_ = [i \in 0..(kInitCapacity_ - 1) |-> NULL]
    /\ data_ = <<>>
    /\ mabs = [k \in {} |-> 0]
    /\ mlast = NoMapCall

InitWatching(w) == InitSet(w) /\ InitHashMap({[k \in Key |-> k]})

Init == InitWatching("calls")

Insert(x) ==
    /\ ~crashed
    /\ \E h \in insert(Call, x) : Store(h) /\ Observe("insert", x, h)
    /\ torn' = NoTeardown

Erase(x) ==
    /\ ~crashed
    /\ \E h \in {erase(Call, x)} : Store(h) /\ Observe("erase", x, h)
    /\ torn' = NoTeardown

Clear ==
    /\ ~crashed
    /\ \E r \in {clear(Call)} :
          /\ Store(r.h)
          /\ torn' = [frees |-> r.frees, steps |-> r.steps, fault |-> r.fault,
                      finished |-> r.finished]
          /\ Observe("clear", 0, r.h)

\* The Set object of root and most_left.
Self == [root |-> root, most_left |-> most_left]

\* What an action on the copy leaves alone.
CopyFrame ==
    UNCHANGED <<watch, abs, last, rots, swaps, it, itv, itcall, q, rt, torn,
                trace, mapvars>>

\* Set copy(set);
CopyConstruct ==
    /\ ~crashed
    /\ cp.phase = 0
    /\ \E h \in copy_construct(Call, Self) :
          /\ node' = h.node /\ live' = h.live /\ crashed' = h.crashed
          /\ copy' = Of(h)
    /\ cp' = [phase |-> 1, op |-> "copy", keep |-> InOrder(H, root)]
    /\ UNCHANGED <<root, most_left>>
    /\ CopyFrame

\* copy = set;
Assign ==
    /\ ~crashed
    /\ cp.phase = 2
    /\ \E h \in assign(Call, copy, Self) :
          /\ node' = h.node /\ live' = h.live /\ crashed' = h.crashed
          /\ copy' = Of(h)
    /\ cp' = [phase |-> 3, op |-> "assign", keep |-> InOrder(H, root)]
    /\ UNCHANGED <<root, most_left>>
    /\ CopyFrame

\* set = set; the last thing a run does.
SelfAssign ==
    /\ ~crashed
    /\ cp.phase = 0
    /\ \E h \in assign(Call, Self, Self) : Store(h)
    /\ cp' = [phase |-> 4, op |-> "self", keep |-> InOrder(H, root)]
    /\ UNCHANGED copy
    /\ CopyFrame

\* copy.insert(x), the first call on either set since the copy was made.
InsertCopy(x) ==
    /\ ~crashed
    /\ cp.phase = 1
    /\ \E h \in insert(On(Call, copy), x) :
          /\ node' = h.node /\ live' = h.live /\ crashed' = h.crashed
          /\ copy' = Of(h)
    /\ cp' = [phase |-> 2, op |-> "copy.insert", keep |-> InOrder(H, root)]
    /\ UNCHANGED <<root, most_left>>
    /\ CopyFrame

\* copy.erase(x), the first call on either set since the copy was made.
EraseCopy(x) ==
    /\ ~crashed
    /\ cp.phase = 1
    /\ \E h \in {erase(On(Call, copy), x)} :
          /\ node' = h.node /\ live' = h.live /\ crashed' = h.crashed
          /\ copy' = Of(h)
    /\ cp' = [phase |-> 2, op |-> "copy.erase", keep |-> InOrder(H, root)]
    /\ UNCHANGED <<root, most_left>>
    /\ CopyFrame

\* The copy goes out of scope: ~Set().  A run follows one copy to its end.
DestroyCopy ==
    /\ ~crashed
    /\ cp.phase \in 1..3
    /\ \E h \in {clear(On(Call, copy)).h} :
          node' = h.node /\ live' = h.live /\ crashed' = h.crashed
    /\ copy' = NoSet
    /\ cp' = [phase |-> 4, op |-> "destroy", keep |-> InOrder(H, root)]
    /\ UNCHANGED <<root, most_left>>
    /\ CopyFrame

\* A caller takes an iterator to an element: it = find(a).
Hold(a) ==
    /\ ~crashed
    /\ find(H, a) # end(H)
    /\ it' = find(H, a)
    /\ itv' = a
    /\ itcall' = NoCall
    /\ UNCHANGED <<node, live, root, most_left, crashed, watch, abs, last,
                   rots, swaps, q, rt, torn, copy, cp, trace,
                   mapvars>>

\* A query; its answer is kept until the next mutating call.
LowerBound(x) ==
    /\ ~crashed
    /\ q' = [op |-> "lower_bound", arg |-> x, res |-> lower_bound(H, x)]
    /\ UNCHANGED <<node, live, root, most_left, crashed, watch, abs, last,
                   rots, swaps, it, itv, itcall, rt, torn, copy, cp, trace,
                   mapvars>>

Next == \E x \in Val : Insert(x) \/ Erase(x)

Spec == Init /\ [][Next]_vars

\* The same calls, with the history cut down to the call made, its argument
\* and its rotations.
InitOps == InitWatching("ops")

SpecOps == InitOps /\ [][Next]_vars

\* The values of a run that builds a tree of more nodes.
DeepVal == 1..(MaxVal + 1)

\* An order of insertion, level by level, that builds the sparsest AVL tree
\* of height five without a rotation: an erase in its lower side rotates
\* twice on its way up.
TallOrder == <<8, 5, 11, 3, 7, 10, 12, 2, 4, 6, 9, 1>>

\* Three kinds of run, with the rebalance() calls each call made written
\* down: the same calls as above in any order; runs that insert more values,
\* then erase once and end; and runs that insert in TallOrder, then erase
\* once and end.
InitRebalance == InitWatching("rebalance")

InitDeep == InitWatching("deep")

InitTall == InitWatching("tall")

NextRebalance ==
    \/ \E x \in Val : watch = "rebalance" /\ (Insert(x) \/ Erase(x))
    \/ \E x \in DeepVal :
          watch = "deep" /\ trace.op # "erase" /\ (Insert(x) \/ Erase(x))
    \/ /\ watch = "tall"
       /\ trace.op # "erase"
       /\ \/ /\ Cardinality(abs) < Len(TallOrder)
             /\ Insert(TallOrder[Cardinality(abs) + 1])
          \/ \E x \in abs : Erase(x)

SpecRebalance ==
    (InitRebalance \/ InitDeep \/ InitTall) /\ [][NextRebalance]_vars

\* The same calls, with the erase_() calls each made written down.
InitErase == InitWatching("erase_")

SpecErase == InitErase /\ [][Next]_vars

\* Only insertions: what the range, list and copy constructors do.
NextIns == \E x \in Val : Insert(x)

SpecIns == Init /\ [][NextIns]_vars

\* Calls interleaved with a caller taking and holding an iterator.
InitIt == InitWatching("iter")

NextIt == \E x \in Val : Insert(x) \/ Erase(x) \/ Hold(x)

SpecIt == InitIt /\ [][NextIt]_vars

\* Calls interleaved with queries.
InitQ == InitWatching("query")

NextQ == \E x \in Val : Insert(x) \/ Erase(x) \/ LowerBound(x)

SpecQ == InitQ /\ [][NextQ]_vars

\* A caller steps an iterator taken at element a: it = find(a); ++it.
Increment(a) ==
    /\ ~crashed
    /\ find(H, a) # end(H)
    /\ q' = [op |-> "++", arg |-> a, res |-> iterator_increment(H, find(H, a))]
    /\ UNCHANGED <<node, live, root, most_left, crashed, watch, abs, last,
                   rots, swaps, it, itv, itcall, rt, torn, copy, cp, trace,
                   mapvars>>

\* it = find(a); --it.
Decrement(a) ==
    /\ ~crashed
    /\ find(H, a) # end(H)
    /\ q' = [op |-> "--", arg |-> a, res |-> iterator_decrement(H, find(H, a))]
    /\ UNCHANGED <<node, live, root, most_left, crashed, watch, abs, last,
                   rots, swaps, it, itv, itcall, rt, torn, copy, cp, trace,
                   mapvars>>

\* it = end(); --it.
DecrementEnd ==
    /\ ~crashed
    /\ q' = [op |-> "--end", arg |-> 0, res |-> iterator_decrement(H, end(H))]
    /\ UNCHANGED <<node, live, root, most_left, crashed, watch, abs, last,
                   rots, swaps, it, itv, itcall, rt, torn, copy, cp, trace,
                   mapvars>>

\* Calls interleaved with clear().
NextClear == (\E x \in Val : Insert(x) \/ Erase(x)) \/ Clear

SpecClear == Init /\ [][NextClear]_vars

\* The map f with k mapped to v.
Put(f, k, v) == [x \in DOMAIN f \cup {k} |-> IF x = k THEN v ELSE f[x]]

\* The map f without k.
Drop(f, k) == [x \in DOMAIN f \ {k} |-> f[x]]

\* The HashMap a call leaves.
MapStore(m) ==
    /\ size_' = m.size_
    /\ capacity_' = m.capacity_
    /\ hasher_' = m.hasher_
    /\ borders_' = m.borders_
    /\ data_' = m.data_

\* The record of the call op(key) made on the current map, which has thrown
\* or not, and returned the value ret, read through a reference to the second
\* of node ref if ref is not null.
MapCall(op, key, thrown, ref, ret) ==
    [op |-> op, key |-> key, hit |-> (key \in DOMAIN mabs),
     thrown |-> thrown, ref |-> ref, ret |-> ret]

\* map.insert({key, value})
MapInsert(key, value) ==
    /\ MapStore(map_insert(M, [first |-> key, second |-> value]))
    /\ mabs' = IF key \in DOMAIN mabs THEN mabs ELSE Put(mabs, key, value)
    /\ mlast' = NoMapCall
    /\ UNCHANGED setvars

\* map.erase(key)
MapErase(key) ==
    /\ MapStore(map_erase(M, key))
    /\ mabs' = Drop(mabs, key)
    /\ mlast' = NoMapCall
    /\ UNCHANGED setvars

\* map.clear()
MapClear ==
    /\ MapStore(map_clear(M))
    /\ mabs' = [k \in {} |-> 0]
    /\ mlast' = NoMapCall
    /\ UNCHANGED setvars

\* value = map[key]
MapIndex(key) ==
    /\ \E r \in {map_index(M, key)} :
          /\ MapStore(r.m)
          /\ mlast' = MapCall("index", key, FALSE, r.it,
                              list_at(r.m.data_, r.it).second)
    /\ mabs' = IF key \in DOMAIN mabs THEN mabs ELSE Put(mabs, key, 0)
    /\ UNCHANGED setvars

\* map[key] = value
MapIndexStore(key, value) ==
    /\ \E r \in {map_index(M, key)} :
          /\ MapStore([r.m EXCEPT
                          !.data_[Pos(r.m.data_, r.it)].second = value])
          /\ mlast' = NoMapCall
    /\ mabs' = Put(mabs, key, value)
    /\ UNCHANGED setvars

\* value = map.at(key), or the catch of what it throws
MapAt(key) ==
    /\ \E r \in {map_at(M, key)} :
          mlast' = MapCall("at", key, r.thrown, NULL, r.ret)
    /\ UNCHANGED <<size_, capacity_, hasher_, borders_, data_, mabs>>
    /\ UNCHANGED setvars

\* Calls on a HashMap constructed with any of the hash functors.
InitMap == InitSet("map") /\ InitHashMap(Hashers)

NextMap ==
    \/ \E key \in Key :
          \/ \E value \in MapVal :
                MapInsert(key, value) \/ MapIndexStore(key, value)
          \/ MapErase(key)
          \/ MapIndex(key)
          \/ MapAt(key)
    \/ MapClear

SpecMap == InitMap /\ [][NextMap]_vars

\* Calls interleaved with the making, one use and the end of a copy.
InitCopy == InitWatching("copy")

NextCopy ==
    \/ \E x \in Val : cp.phase <= 1 /\ (Insert(x) \/ Erase(x))
    \/ \E x \in Val : InsertCopy(x) \/ EraseCopy(x)
    \/ CopyConstruct
    \/ Assign
    \/ SelfAssign
    \/ DestroyCopy

SpecCopy == InitCopy /\ [][NextCopy]_vars

\* Calls interleaved with iterator steps.
NextStep ==
    \/ \E x \in Val : Insert(x) \/ Erase(x) \/ Increment(x) \/ Decrement(x)
    \/ DecrementEnd

SpecStep == InitQ /\ [][NextStep]_vars

\* Calls, with every insert(x); erase(x) pair written down.
InitRT == InitWatching("trip")

SpecRT == InitRT /\ [][Next]_vars

----------------------------------------------------------------------------
\* C1: after every insert and erase, every node of the tree has subtrees
\* whose true heights (recomputed from the links) differ by at most one.
AVLBalanced ==
    \A n \in TreeNodes(H, root) :
        Abs(TrueHeight(H, node[n].left) - TrueHeight(H, node[n].right)) <= 1

\* An erase that had to rotate has returned.
AVLBalancedWitness ==
    /\ last.op = "erase"
    /\ rots >= 1
    /\ Cardinality(TreeNodes(H, root)) = 3
    /\ AVLBalanced

\* C2: the values in the tree are exactly the abstract set, and find(x) is a
\* node holding x when x is in it and end() when it is not.
RefinesSet ==
    /\ Values(H, root) = abs
    /\ \A x \in Val :
        IF x \in abs
        THEN find(H, x) \in live /\ node[find(H, x)].value = x
        ELSE find(H, x) = end(H)

\* An erase that swapped values on its way has returned: the erased value is
\* gone, find() says so, and the other elements are all found.
RefinesSetWitness ==
    /\ last.op = "erase"
    /\ swaps >= 1
    /\ last.arg \notin abs
    /\ Cardinality(abs) >= 2
    /\ find(H, last.arg) = end(H)
    /\ RefinesSet

\* C4: every node's value is above every value of its left subtree and below
\* every value of its right subtree, and no two nodes hold the same value.
BSTOrdered ==
    /\ \A n \in TreeNodes(H, root) :
          /\ \A k \in Values(H, node[n].left) : k < node[n].value
          /\ \A k \in Values(H, node[n].right) : node[n].value < k
    /\ \A n, m \in TreeNodes(H, root) :
          node[n].value = node[m].value => n = m

\* An erase that swapped values between two nodes has returned: the node that
\* held the erased value is still in the tree, three values remain.
BSTOrderedWitness ==
    /\ last.op = "erase"
    /\ swaps >= 1
    /\ \E n \in TreeNodes(H, root) :
          node[n].left # NULL /\ node[n].right # NULL
    /\ BSTOrdered

\* C5: every node's cached height and size are the true height and size of
\* its subtree; size() is the number of elements and empty() says whether
\* there are none.
CachesCorrect ==
    /\ \A n \in TreeNodes(H, root) :
          /\ node[n].height = TrueHeight(H, n)
          /\ node[n].size = TrueSize(H, n)
    /\ size(H) = Cardinality(abs)
    /\ empty(H) <=> (abs = {})

\* An insert that rotated at the root has returned: three elements under a
\* root of height two.
CachesCorrectWitness ==
    /\ last.op = "insert"
    /\ rots = 1
    /\ size(H) = 3
    /\ node[root].height = 2
    /\ ~empty(H)
    /\ CachesCorrect

\* C3: after every call most_left is null exactly when the set is empty, and
\* otherwise is the node holding the smallest value, so that begin() shows
\* the minimum.
MostLeftIsMinimum ==
    /\ (most_left = NULL) <=> (Values(H, root) = {})
    /\ Values(H, root) # {} =>
          /\ begin(H) \in live
          /\ node[begin(H)].value = Least(Values(H, root))

\* C6: an iterator taken at element a, held across erase(b) with b # a, still
\* points at a live node, and that node still holds a.
IteratorSurvivesErase ==
    (itcall.op = "erase" /\ itcall.arg # itv) =>
        (it \in live /\ node[it].value = itv)

Above(x) == { k \in Values(H, root) : k > x }

\* C8: lower_bound(x) is where find(x) is when x is stored; otherwise it is
\* the node of the smallest stored value above x, or end() without one.
LowerBoundCorrect ==
    q.op = "lower_bound" =>
        IF q.arg \in Values(H, root)
        THEN q.res # end(H) /\ q.res = find(H, q.arg)
        ELSE IF Above(q.arg) # {}
        THEN /\ q.res \in TreeNodes(H, root)
             /\ node[q.res].value = Least(Above(q.arg))
        ELSE q.res = end(H)

\* lower_bound of an absent value whose answer is not the node the search
\* stopped at but that node's successor.
LowerBoundWitness ==
    /\ q.op = "lower_bound"
    /\ q.arg \notin Values(H, root)
    /\ q.res # end(H)
    /\ q.res # find_(H, q.arg)[2]
    /\ node[q.res].value = Least(Above(q.arg))

\* C9: after inserts only, walking from begin() with ++ to end() gives a
\* strictly increasing sequence of exactly the distinct inserted values, and
\* size() is their number.
InsertOnlyIteration ==
    /\ Increasing(IterSeq(H))
    /\ Range(IterSeq(H)) = abs
    /\ Len(IterSeq(H)) = Cardinality(abs)
    /\ size(H) = Cardinality(abs)

\* The last insert was of a value already there (it did not rotate and its
\* node has a child, which a node just attached has not), into three or more
\* elements.
InsertOnlyWitness ==
    /\ last.op = "insert"
    /\ rots = 0
    /\ find(H, last.arg) # end(H)
    /\ node[find(H, last.arg)].left # NULL \/ node[find(H, last.arg)].right # NULL
    /\ Len(IterSeq(H)) >= 3
    /\ InsertOnlyIteration

\* C10: insert(x) of a value already in the set changes nothing: no link, no
\* value, no cached height or size, not root, not most_left, and the node it
\* allocated is freed again.
InsertDuplicateNoOp ==
    [][ (last'.op = "insert" /\ find(H, last'.arg) # end(H)) =>
            UNCHANGED <<node, live, root, most_left, crashed>> ]_vars

\* C14: whatever element a an iterator it = find(a) is at when insert(b) is
\* called, once insert(b) has returned it still points at an allocated node,
\* that node still holds a, and it is the node find(a) answers.
IteratorSurvivesInsert ==
    [][ (last'.op = "insert" /\ ~crashed') =>
            \A a \in Val :
                LET p == find(H, a)
                IN  p # end(H) =>
                        /\ p \in live'
                        /\ node'[p].value = a
                        /\ find(H', a) = p ]_vars

\* An insert of a new value has returned after rotating: of the three nodes
\* of the tree, two were there before and an iterator could be at either.
IteratorSurvivesInsertWitness ==
    /\ last.op = "insert"
    /\ ~crashed
    /\ rots >= 1
    /\ Cardinality(TreeNodes(H, root)) = 3
    /\ \E a \in Val \ {last.arg} :
          find(H, a) # end(H) /\ node[find(H, a)].parent # NULL

\* The stored values below x.
Below(x) == { k \in Values(H, root) : k < x }

\* C15: ++ on an iterator at element a gives the node of the smallest stored
\* value above a, or end() when a is the maximum; -- on an iterator at an
\* element that is not the minimum gives the node of the largest stored value
\* below it; -- on end() of a set that is not empty gives the node of the
\* maximum.
IteratorSteps ==
    /\ q.op = "++" =>
          IF Above(q.arg) # {}
          THEN /\ q.res \in TreeNodes(H, root)
               /\ node[q.res].value = Least(Above(q.arg))
          ELSE q.res = end(H)
    /\ (q.op = "--" /\ Below(q.arg) # {}) =>
          /\ q.res \in TreeNodes(H, root)
          /\ node[q.res].value = Greatest(Below(q.arg))
    /\ (q.op = "--end" /\ Values(H, root) # {}) =>
          /\ q.res \in TreeNodes(H, root)
          /\ node[q.res].value = Greatest(Values(H, root))

\* ++ from a node without a right subtree that had to climb past its parent
\* to reach the successor.
IteratorStepsWitness ==
    /\ q.op = "++"
    /\ find(H, q.arg) # end(H)
    /\ node[find(H, q.arg)].right = NULL
    /\ q.res # end(H)
    /\ q.res # node[find(H, q.arg)].parent
    /\ node[q.res].value = Least(Above(q.arg))

\* C16: clear() comes to an end, having deleted each node of the tree once
\* (as many deletes as there were nodes, none of a deleted node, no node left
\* allocated) and read no deleted node, and leaves root and most_left null.
Teardown ==
    last.op = "clear" =>
        /\ torn.finished
        /\ ~torn.fault
        /\ ~crashed
        /\ torn.frees = last.nodes
        /\ live = {}
        /\ root = NULL
        /\ most_left = NULL

\* clear() has torn down a tree of four nodes, in seven turns of its loop.
TeardownWitness ==
    /\ last.op = "clear"
    /\ last.nodes = 4
    /\ torn.finished
    /\ torn.frees = 4
    /\ torn.steps = 7
    /\ live = {}

\* The heap with the copy as the object looked at.
HCopy == On(H, copy)

\* C13: a copy-constructed or assigned set has the in-order sequence and the
\* size() of its source and shares no node with it, a set assigned to itself
\* keeps its sequence and size, and the first insert or erase on either set
\* afterwards leaves the other's sequence as it was.
DeepCopy ==
    ~crashed =>
        /\ cp.op \in {"copy", "assign"} =>
              /\ InOrder(HCopy, copy.root) = InOrder(H, root)
              /\ size(HCopy) = size(H)
              /\ TreeNodes(HCopy, copy.root) \cap TreeNodes(H, root) = {}
        /\ cp.op = "self" =>
              /\ InOrder(H, root) = cp.keep
              /\ size(H) = Len(cp.keep)
        /\ cp.op \in {"insert", "erase"} =>
              InOrder(HCopy, copy.root) = cp.keep
        /\ cp.op \in {"copy.insert", "copy.erase", "destroy"} =>
              InOrder(H, root) = cp.keep

\* The keys of the list nodes, in list order.
MapKeys == [j \in 1..Len(data_) |-> data_[j].first]

\* find(k) is the node of k, holding the mapped value, when k is in the
\* abstract map and end() when it is not; size() is the number of keys;
\* walking from begin() to end() shows every key of the abstract map once and
\* nothing else.
MapAgrees ==
    /\ \A k \in Key :
          IF k \in DOMAIN mabs
          THEN /\ map_find(M, k) # map_end(M)
               /\ list_at(data_, map_find(M, k)).first = k
               /\ list_at(data_, map_find(M, k)).second = mabs[k]
          ELSE map_find(M, k) = map_end(M)
    /\ map_size(M) = Cardinality(DOMAIN mabs)
    /\ Range(map_walk(M, map_begin(M))) = DOMAIN mabs
    /\ Len(map_walk(M, map_begin(M))) = Cardinality(DOMAIN mabs)

\* A call that leaves the abstract map as it was, as insert of a key that is
\* stored and erase of a key that is not do, leaves every data member as it
\* was.
MapNoOps ==
    mabs' = mabs => UNCHANGED <<size_, capacity_, hasher_, borders_, data_>>

\* C17: after any calls of insert, operator[], erase and clear, rehashes and
\* colliding keys included, the HashMap agrees with the abstract map in
\* find(), size() and the walk from begin() to end(), the abstract map
\* keeping the old value on insert of a key it has; and insert of a stored
\* key and erase of a missing key change nothing.
RefinesMap == []MapAgrees /\ [][MapNoOps]_vars

\* After the capacity has doubled twice the map holds two keys, both in one
\* bucket, fewer than it has held.
RefinesMapWitness ==
    /\ capacity_ = 4 * kInitCapacity_
    /\ Cardinality(DOMAIN mabs) = 2
    /\ \E k1, k2 \in DOMAIN mabs :
          k1 # k2 /\ local_hash(M, k1) = local_hash(M, k2)
    /\ MapAgrees

\* What a step of the map does to its capacity and, when it stores a new key,
\* to its size and to the keys it had.
GrowthStep ==
    /\ capacity_' >= capacity_
    /\ IF Cardinality(DOMAIN mabs') = Cardinality(DOMAIN mabs) + 1
       THEN /\ capacity_' = IF (map_size(M) + 1) * 2 >= capacity_
                            THEN 2 * capacity_ ELSE capacity_
            /\ map_size(M') = map_size(M) + 1
            /\ \A k \in DOMAIN mabs :
                  /\ map_find(M', k) # map_end(M')
                  /\ list_at(data_', map_find(M', k)).second
                        = list_at(data_, map_find(M, k)).second
       ELSE capacity_' = capacity_

\* C18: a call that stores a new key doubles the capacity exactly when
\* (size + 1) * 2 >= capacity held before it, no other call changes the
\* capacity, so that size * 2 < capacity in every state; the call leaves
\* every key stored before it found with the value it had, and the size one
\* larger; the capacity never shrinks.
Growth == [](map_size(M) * 2 < capacity_) /\ [][GrowthStep]_vars

\* The capacity has doubled twice, the second time with two keys of one bucket
\* to move, and three keys are stored, two of them in one bucket.
GrowthWitness ==
    /\ capacity_ = 4 * kInitCapacity_
    /\ map_size(M) = 3
    /\ hasher_[1] % (2 * kInitCapacity_) = hasher_[2] % (2 * kInitCapacity_)
    /\ \E k1, k2 \in DOMAIN mabs :
          k1 # k2 /\ local_hash(M, k1) = local_hash(M, k2)
    /\ \A k \in Key : map_find(M, k) # map_end(M)

\* C19: at(key) for a key the map does not hold throws std::out_of_range and
\* for a key it holds returns the value stored for it; either way it leaves
\* the entries, the size and the capacity as they were.
AtAnswers ==
    [][ mlast'.op = "at" =>
          /\ UNCHANGED <<size_, capacity_, hasher_, borders_, data_>>
          /\ IF mlast'.key \in DOMAIN mabs
             THEN ~mlast'.thrown /\ mlast'.ret = mabs[mlast'.key]
             ELSE mlast'.thrown ]_vars

\* at(key) has thrown after walking a bucket that holds other keys.
AtAnswersWitness ==
    /\ mlast.op = "at"
    /\ ~mlast.hit
    /\ mlast.thrown
    /\ borders_[local_hash(M, mlast.key)] # NULL
    /\ map_size(M) >= 2

\* The entries of the list.
Entries(m) ==
    { <<m.data_[j].first, m.data_[j].second>> : j \in 1..Len(m.data_) }

\* C20: operator[](key) returns a reference to the value of key's entry.  For
\* a key the map did not hold that entry is new, its value ValueType(), the
\* size one larger and the other entries as they were; for a key it held,
\* the value is the one stored and entries and size are as they were.
IndexInserts ==
    [][ mlast'.op = "index" =>
          /\ mlast'.ref # map_end(M')
          /\ mlast'.ref = map_find(M', mlast'.key)
          /\ mlast'.ret = list_at(data_', mlast'.ref).second
          /\ IF mlast'.key \in DOMAIN mabs
             THEN /\ mlast'.ret = mabs[mlast'.key]
                  /\ Entries(M') = Entries(M)
                  /\ map_size(M') = map_size(M)
             ELSE /\ mlast'.ret = 0
                  /\ Entries(M') = Entries(M) \cup {<<mlast'.key, 0>>}
                  /\ map_size(M') = map_size(M) + 1 ]_vars

\* operator[] has stored a key the map did not hold, the third, in a bucket
\* that held a key already.
IndexInsertsWitness ==
    /\ mlast.op = "index"
    /\ ~mlast.hit
    /\ mlast.ret = 0
    /\ map_size(M) = 3
    /\ mlast.ref = borders_[local_hash(M, mlast.key)]
    /\ list_next(data_, mlast.ref) # Sentinel
    /\ local_hash(M, list_at(data_, list_next(data_, mlast.ref)).first)
          = local_hash(M, mlast.key)

\* C11: erase(x) of a value that is not in the set changes nothing: no link,
\* value, cached height or size, not root, not most_left; it frees no node
\* and does not fail.
EraseAbsentNoOp ==
    [][ (last'.op = "erase" /\ find(H, last'.arg) = end(H)) =>
            UNCHANGED <<node, live, root, most_left, crashed>> ]_vars

\* An erase of a value that was not stored has returned from a set of three
\* elements, whose three nodes are all still allocated.
EraseAbsentWitness ==
    /\ last.op = "erase"
    /\ ~last.hit
    /\ ~crashed
    /\ last.nodes = 3
    /\ Cardinality(live) = 3
    /\ size(H) = 3

\* The allocated nodes are exactly the nodes of the tree.
NoLeak == live = TreeNodes(H, root)

\* No link field of an allocated node holds the address of a freed node.
LinksLive ==
    \A n \in live :
        {node[n].left, node[n].right, node[n].parent} \subseteq live \cup {NULL}

\* A completed insert of a new value allocated one node on balance, a
\* completed erase of a stored value freed one, any other call neither.
OneNodePerCall ==
    ~crashed =>
        Cardinality(live) =
            IF last.op = "insert" /\ ~last.hit THEN last.nodes + 1
            ELSE IF last.op = "erase" /\ last.hit THEN last.nodes - 1
            ELSE last.nodes

\* C12: the allocated nodes are exactly those reachable from root, an insert
\* of a new value adds one node and an erase of a stored value frees one, and
\* neither root nor most_left nor any link field holds the address of a freed
\* node.
NodeLifecycle ==
    /\ NoLeak
    /\ OneNodePerCall
    /\ LinksLive
    /\ root \in live \cup {NULL}
    /\ most_left \in live \cup {NULL}

\* C21: in every state in which insert can be called on a set that is not
\* empty (root is not null), most_left is not null, so that the comparison
\* element < most_left->value does not read through a null pointer.
MostLeftNotNullAtCompare ==
    (~crashed /\ root # NULL) => most_left # NULL

\* Node v of heap h has exactly one child.
OneChild(h, v) == (h.node[v].left = NULL) # (h.node[v].right = NULL)

\* The child of a node that has exactly one.
OnlyChild(h, v) ==
    IF h.node[v].left # NULL THEN h.node[v].left ELSE h.node[v].right

\* C22: when erase(x) has found x in a node v that has exactly one child c,
\* then after the call v is the node that was deleted, c is still allocated
\* and holds the value it held, and c hangs where v hung: under v's former
\* parent, or at root when v had none.
SplicesOneChild ==
    (trace.op = "erase" /\ trace.erases # <<>>) =>
        LET e == trace.erases[1]
            v == e.v
            c == OnlyChild(e.at, v)
            p == e.at.node[v].parent
        IN  OneChild(e.at, v) =>
                /\ v \notin live
                /\ c \in live
                /\ node[c].value = e.at.node[c].value
                /\ node[c].parent = p
                /\ IF p = NULL THEN root = c
                   ELSE c \in {node[p].left, node[p].right}

\* The left, right and parent fields of every cell of heap h.
Links(h) ==
    [n \in Node |-> <<h.node[n].left, h.node[n].right, h.node[n].parent>>]

\* C23: an insert that calls rebalance() calls it once. The node it returns
\* has balance factor 0 and the height the subtree had before the insert
\* (the height still cached in the unbalanced node, one less than the
\* subtree's true height when rebalance() is called); what follows changes
\* no link and does not move root.
RebalanceOncePerInsert ==
    trace.op = "insert" =>
        /\ Len(trace.rebalances) <= 1
        /\ \A i \in 1..Len(trace.rebalances) :
              LET e == trace.rebalances[i] IN
              /\ get_diff(e.to, e.ret) = 0
              /\ e.to.node[e.ret].height = e.at.node[e.v].height
              /\ TrueHeight(e.to, e.ret) = TrueHeight(e.at, e.v) - 1
              /\ Links(H) = Links(e.to)
              /\ root = e.to.root

\* An insert has returned that rotated below the root, so that the walk up
\* to the root went on after the rotation.
RebalanceOncePerInsertWitness ==
    /\ trace.op = "insert"
    /\ ~crashed
    /\ Len(trace.rebalances) = 1
    /\ trace.rebalances[1].at.node[trace.rebalances[1].v].parent # NULL
    /\ root # trace.rebalances[1].ret
    /\ size(H) >= 5

\* The true balance factor of node n of heap h, from the links.
TrueDiff(h, n) ==
    TrueHeight(h, h.node[n].left) - TrueHeight(h, h.node[n].right)

\* Node n of heap h has a balance factor in {-1, 0, 1}, true and cached, and
\* its cached height and size are those of its subtree.
Settled(h, n) ==
    /\ TrueDiff(h, n) \in {-1, 0, 1}
    /\ get_diff(h, n) = TrueDiff(h, n)
    /\ h.node[n].height = TrueHeight(h, n)
    /\ h.node[n].size = TrueSize(h, n)

\* The logged call e of rebalance() did a single left rotation: v's right
\* child u came up, v went down to its left and took over u's left subtree.
SingleLeft(e) ==
    LET v == e.v
        u == e.at.node[v].right
    IN  /\ e.ret = u
        /\ e.to.node[u].left = v
        /\ e.to.node[u].right = e.at.node[u].right
        /\ e.to.node[v].left = e.at.node[v].left
        /\ e.to.node[v].right = e.at.node[u].left

\* A single right rotation, the mirror image.
SingleRight(e) ==
    LET v == e.v
        u == e.at.node[v].left
    IN  /\ e.ret = u
        /\ e.to.node[u].right = v
        /\ e.to.node[u].left = e.at.node[u].left
        /\ e.to.node[v].right = e.at.node[v].right
        /\ e.to.node[v].left = e.at.node[u].right

\* A right-left double rotation: w, the left child of v's right child u, came
\* up between v and u and handed its subtrees to them.
DoubleRightLeft(e) ==
    LET v == e.v
        u == e.at.node[v].right
        w == e.at.node[u].left
    IN  /\ e.ret = w
        /\ e.to.node[w].left = v
        /\ e.to.node[w].right = u
        /\ e.to.node[v].left = e.at.node[v].left
        /\ e.to.node[v].right = e.at.node[w].left
        /\ e.to.node[u].left = e.at.node[w].right
        /\ e.to.node[u].right = e.at.node[u].right

\* A left-right double rotation, the mirror image.
DoubleLeftRight(e) ==
    LET v == e.v
        u == e.at.node[v].left
        w == e.at.node[u].right
    IN  /\ e.ret = w
        /\ e.to.node[w].right = v
        /\ e.to.node[w].left = u
        /\ e.to.node[v].right = e.at.node[v].right
        /\ e.to.node[v].left = e.at.node[w].right
        /\ e.to.node[u].right = e.at.node[w].left
        /\ e.to.node[u].left = e.at.node[u].left

\* The rotation of the four-case table for the factors the call e found.
TableRotation(e) ==
    LET v == e.v
        f == get_diff(e.at, v)
    IN  /\ f = -2 =>
              LET c == get_diff(e.at, e.at.node[v].right) IN
              /\ c \in {0, -1} => SingleLeft(e)
              /\ c = 1 => DoubleRightLeft(e)
        /\ f = 2 =>
              LET c == get_diff(e.at, e.at.node[v].left) IN
              /\ c \in {0, 1} => SingleRight(e)
              /\ c = -1 => DoubleLeftRight(e)

\* The nodes the rotation of call e moved: v, its child on the taller side,
\* and the node returned (that child, or the child's child).
Rotated(e) ==
    {e.v, e.ret,
     IF get_diff(e.at, e.v) < 0 THEN e.at.node[e.v].right
     ELSE e.at.node[e.v].left}

\* The node call e returned stands where v stood: under v's parent on v's
\* side, over the nodes that were under v; and root follows when v was root.
NewSubtreeRoot(e) ==
    LET p == e.at.node[e.v].parent IN
    /\ e.to.node[e.ret].parent = p
    /\ TreeNodes(e.to, e.ret) = TreeNodes(e.at, e.v)
    /\ p # NULL =>
          /\ (e.at.node[p].left = e.v) => (e.to.node[p].left = e.ret)
          /\ (e.at.node[p].right = e.v) => (e.to.node[p].right = e.ret)
          /\ (e.at.node[p].left # e.v) =>
                (e.to.node[p].left = e.at.node[p].left)
          /\ (e.at.node[p].right # e.v) =>
                (e.to.node[p].right = e.at.node[p].right)
    /\ e.to.root = (IF e.at.root = e.v THEN e.ret ELSE e.at.root)

\* C24 as stated: every call of rebalance() applies the rotation of the
\* table, returns the new root of the subtree (root following), and leaves
\* every node it wrote a link of, v's parent included, with a balance factor
\* in {-1, 0, 1} and correct cached height and size.
RebalanceSettlesParent ==
    \A i \in 1..Len(trace.rebalances) :
        LET e == trace.rebalances[i] IN
        /\ TableRotation(e)
        /\ NewSubtreeRoot(e)
        /\ \A n \in (Rotated(e) \cup {e.at.node[e.v].parent}) \ {NULL} :
              Settled(e.to, n)

\* C24 as amended: every call of rebalance() applies the rotation of the
\* table, returns the new root of the subtree (root following), and leaves
\* the nodes it rotated with a balance factor in {-1, 0, 1} and correct
\* cached height and size; v's parent it leaves with correct cached height
\* and size.
RebalanceByTable ==
    \A i \in 1..Len(trace.rebalances) :
        LET e == trace.rebalances[i]
            p == e.at.node[e.v].parent
        IN  /\ TableRotation(e)
            /\ NewSubtreeRoot(e)
            /\ \A n \in Rotated(e) : Settled(e.to, n)
            /\ p # NULL =>
                  /\ e.to.node[p].height = TrueHeight(e.to, p)
                  /\ e.to.node[p].size = TrueSize(e.to, p)

\* An erase has returned that rotated twice: first below the root, a single
\* rotation that left the root with factor 2, then at the root.
RebalanceByTableWitness ==
    /\ trace.op = "erase"
    /\ ~crashed
    /\ Len(trace.rebalances) = 2
    /\ trace.rebalances[1].at.node[trace.rebalances[1].v].parent # NULL
    /\ trace.rebalances[2].v = trace.rebalances[2].at.root
    /\ root = trace.rebalances[2].ret

\* C25: every call of rebalance(), from insert and from erase, is on an
\* allocated node whose balance factor from the cached heights of its
\* children is exactly -2 or 2, and the nodes the rotation it chooses reads
\* through are allocated: the child on the taller side, and for a double
\* rotation (taken when that child leans the other way) the child's inner
\* child.
RebalanceArgument ==
    \A i \in 1..Len(trace.rebalances) :
        LET e == trace.rebalances[i]
            h == e.at
            v == e.v
        IN  /\ v # NULL
            /\ v \in h.live
            /\ get_diff(h, v) \in {-2, 2}
            /\ get_diff(h, v) = -2 =>
                  LET u == h.node[v].right IN
                  /\ u \in h.live
                  /\ get_diff(h, u) \notin {-1, 0} => h.node[u].left \in h.live
            /\ get_diff(h, v) # -2 =>
                  LET u == h.node[v].left IN
                  /\ u \in h.live
                  /\ get_diff(h, u) \notin {1, 0} => h.node[u].right \in h.live

\* An erase has returned that called rebalance() on a node leaning left
\* whose left child leaned right: the double rotation read the child and the
\* child's right child.
RebalanceArgumentWitness ==
    /\ trace.op = "erase"
    /\ ~crashed
    /\ \E i \in 1..Len(trace.rebalances) :
          LET e == trace.rebalances[i] IN
          /\ get_diff(e.at, e.v) = 2
          /\ get_diff(e.at, e.at.node[e.v].left) = -1
          /\ e.ret = e.at.node[e.at.node[e.v].left].right

\* The nodes of the subtree of n in heap h, in order.
RECURSIVE InOrderNodes(_, _)
InOrderNodes(h, n) ==
    IF n = NULL THEN <<>>
    ELSE InOrderNodes(h, h.node[n].left) \o <<n>>
         \o InOrderNodes(h, h.node[n].right)

\* C26: every rotation leaves the in-order sequence of the nodes of the whole
\* tree as it was, and every node's value; it does not write most_left; so
\* when most_left was the node of the minimum before the rotation it is
\* after it.
RotationKeepsOrder ==
    \A i \in 1..Len(trace.rebalances) :
        LET e == trace.rebalances[i] IN
        /\ InOrderNodes(e.to, e.to.root) = InOrderNodes(e.at, e.at.root)
        /\ \A n \in Node : e.to.node[n].value = e.at.node[n].value
        /\ e.to.most_left = e.at.most_left
        /\ MinCached(e.at) => MinCached(e.to)

\* A call has returned that rotated the node of the minimum, most_left, away
\* from the top of its subtree: it is most_left still, and the minimum.
RotationKeepsOrderWitness ==
    /\ ~crashed
    /\ Len(trace.rebalances) = 1
    /\ trace.rebalances[1].at.most_left = trace.rebalances[1].v
    /\ MinCached(trace.rebalances[1].at)
    /\ most_left = trace.rebalances[1].v
    /\ node[most_left].parent = trace.rebalances[1].ret
    /\ MinCached(H)

\* Node v of heap h has two children.
TwoChildren(h, v) == h.node[v].left # NULL /\ h.node[v].right # NULL

\* The place of node n in the sequence s.
Place(s, n) == CHOOSE k \in 1..Len(s) : s[k] = n

\* C27: when erase_ is called on a node v with two children, it is called
\* next on the node u that comes right before v in order if v's balance
\* factor is >= 0, right after v otherwise; u is in v's subtree on that side,
\* u has at most one child, and between the two calls the values of v and u
\* have changed places while no link and no other node has changed.
ErasePicksNeighbour ==
    \A i \in 1..Len(trace.erases) :
        LET e == trace.erases[i]
            h == e.at
            v == e.v
            order == InOrderNodes(h, h.root)
            k == Place(order, v)
        IN  TwoChildren(h, v) =>
                /\ i < Len(trace.erases)
                /\ LET u == trace.erases[i + 1].v
                       g == trace.erases[i + 1].at
                   IN  /\ IF get_diff(h, v) >= 0
                          THEN /\ u = order[k - 1]
                               /\ u \in TreeNodes(h, h.node[v].left)
                          ELSE /\ u = order[k + 1]
                               /\ u \in TreeNodes(h, h.node[v].right)
                       /\ ~TwoChildren(h, u)
                       /\ g.node[u].value = h.node[v].value
                       /\ g.node[v].value = h.node[u].value
                       /\ \A n \in Node \ {u, v} : g.node[n] = h.node[n]
                       /\ Links(g) = Links(h)
                       /\ g.live = h.live

\* An erase of a value in a node with two children and a negative factor has
\* returned: erase_ went on to the node next in order, which was not a child
\* of the first but further down.
ErasePicksNeighbourWitness ==
    /\ trace.op = "erase"
    /\ ~crashed
    /\ Len(trace.erases) >= 2
    /\ TwoChildren(trace.erases[1].at, trace.erases[1].v)
    /\ get_diff(trace.erases[1].at, trace.erases[1].v) < 0
    /\ trace.erases[1].at.node[trace.erases[2].v].parent # trace.erases[1].v
    /\ trace.arg \notin Values(H, root)

\* Following left and right links from n in heap h, some path is longer than
\* fuel nodes.
RECURSIVE TooDeep(_, _, _)
TooDeep(h, n, fuel) ==
    IF n = NULL THEN FALSE
    ELSE IF fuel = 0 THEN TRUE
    ELSE \/ TooDeep(h, h.node[n].left, fuel - 1)
         \/ TooDeep(h, h.node[n].right, fuel - 1)

\* C28: after every call root's parent is null; the children of every
\* allocated node are allocated and have that node as their parent; and the
\* left and right links from root form a tree: no path longer than there
\* are cells (no cycle), and no node met twice on the way through it.
ParentLinks ==
    /\ root # NULL => (root \in live /\ node[root].parent = NULL)
    /\ \A n \in live :
          /\ node[n].left # NULL =>
                (node[n].left \in live /\ node[node[n].left].parent = n)
          /\ node[n].right # NULL =>
                (node[n].right \in live /\ node[node[n].right].parent = n)
    /\ ~TooDeep(H, root, MaxNodes)
    /\ Len(InOrderNodes(H, root)) = Cardinality(TreeNodes(H, root))

\* An erase has returned whose single left rotation handed the left subtree
\* of the node that came up to the node that went down: the subtree's root
\* has its new parent, and the node that went down has the node that came up.
ParentLinksWitness ==
    /\ trace.op = "erase"
    /\ ~crashed
    /\ Len(trace.rebalances) = 1
    /\ LET e == trace.rebalances[1]
           u == e.at.node[e.v].right
       IN  /\ get_diff(e.at, e.v) = -2
           /\ e.ret = u
           /\ e.at.node[u].left # NULL
           /\ node[e.at.node[u].left].parent = e.v
           /\ node[e.v].parent = u
           /\ root = u
    /\ ParentLinks
====
